---- MODULE Spec2Model ----
(***************************************************************************)
(* Model of the Telegram relay bot of src/main.py: the per-user            *)
(* ConversationManager (history, language, JSON file), the registry        *)
(* G4FBot.conversation_managers, and the asynchronous handlers of G4FBot.  *)
(*                                                                         *)
(* A handler is a coroutine: the code between two awaits runs without      *)
(* interruption on the event loop, so each action below is one such        *)
(* stretch of code, from the resumption of an await to the next await.     *)
(* Handler invocations are modelled as concurrently schedulable tasks, the *)
(* case the concurrency statements of the specification are about; the     *)
(* source holds no lock or queue of its own.                               *)
(***************************************************************************)
EXTENDS Integers, Sequences, FiniteSets, TLC

VARIABLES
    disk,       \* user_id -> content of conversations/user_<id>.json
    managers,   \* G4FBot.conversation_managers: a function from the resident user_ids
    turn,       \* handler invocation -> its locals and its position
    now,        \* user_id -> datetime.now() as that user's history sees it: a tick per entry
    faults,     \* environment failures injected so far
    restarts,   \* process restarts so far
    appended,   \* history: user_id -> every entry loaded or appended since the last reset
    saveErr     \* user_id -> the last save_history of that user logged an error

vars == <<disk, managers, turn, now, faults, restarts, appended, saveErr>>

---------------------------------------------------------------------------
(* Bounds of the model *)

MaxTurns == 2
MaxFaults == 1
MaxRestarts == 1

Turns == 1..MaxTurns

---------------------------------------------------------------------------
(* Program constants *)

MAX_HISTORY_LENGTH == 50
CONTEXT_MESSAGES == 10

Languages == {"en", "ru"}
SupportedLanguageArgs == {"en", "ru"}
SUPPORTED_FILE_TYPES == {".txt", ".md", ".pdf", ".json", ".py", ".js", ".html", ".css"}

\* TRANSLATIONS[lang][key], the texts abridged (the Russian ones transliterated)
TRANSLATIONS(lang, key) ==
    IF lang = "ru"
    THEN CASE key = "error" -> "Izvinite, proizoshla oshibka."
           [] key = "cleared" -> "Istoriya razgovora ochishchena."
           [] key = "language_switched" -> "Yazyk pereklyuchen na russkiy."
           [] key = "file_received" -> "Fayl poluchen: "
           [] key = "file_error" -> "Oshibka pri obrabotke fayla: "
           [] key = "unsupported_file" -> "Nepodderzhivaemyy tip fayla."
           [] OTHER -> ""
    ELSE CASE key = "error" -> "Sorry, an error occurred. Please try again."
           [] key = "cleared" -> "Conversation history cleared."
           [] key = "language_switched" -> "Language switched to English."
           [] key = "file_received" -> "File received: "
           [] key = "file_error" -> "Error processing file: "
           [] key = "unsupported_file" -> "Unsupported file type."
           [] OTHER -> ""

---------------------------------------------------------------------------
(* Sequences *)

LastN(s, n) == IF Len(s) <= n THEN s ELSE SubSeq(s, Len(s) - n + 1, Len(s))

Message(role, content, ts) == [role |-> role, content |-> content, timestamp |-> ts]

---------------------------------------------------------------------------
(* The JSON file of a user *)

Absent == [state |-> "absent"]
Truncated == [state |-> "truncated"]

\* json.dump of the four keys save_history writes
Serialize(m, ts) ==
    [state |-> "complete",
     user_id |-> m.user_id,
     language |-> m.language,
     conversation |-> m.conversation,
     timestamp |-> ts]

\* a mutant of ConversationManager: the language of the file is not read back
ConversationManagerDefaultLanguage(user_id, file) ==
    IF file.state = "complete"
    THEN [user_id |-> user_id, language |-> "en", conversation |-> file.conversation]
    ELSE [user_id |-> user_id, language |-> "en", conversation |-> <<>>]

\* a mutant of ConversationManager: the default of the language parameter is "ru"
ConversationManagerOtherDefault(user_id, file) ==
    IF file.state = "complete"
    THEN [user_id |-> user_id, language |-> file.language, conversation |-> file.conversation]
    ELSE [user_id |-> user_id, language |-> "ru", conversation |-> <<>>]

\* ConversationManager.__init__ with _load_history: a missing file leaves the
\* defaults, a parsed file gives conversation and language, an unparsable one
\* is logged and gives an empty conversation
ConversationManager(user_id, file) ==
    IF file.state = "complete"
    THEN [user_id |-> user_id, language |-> file.language, conversation |-> file.conversation]
    ELSE [user_id |-> user_id, language |-> "en", conversation |-> <<>>]

\* save_history: open(..., 'w') then json.dump, every exception logged and swallowed.
\* io = "open_error": open raised, the file is untouched;
\* io = "write_error": the file was truncated by open and the write raised.
save_history(m, file, ts, io) ==
    CASE io = "ok" -> Serialize(m, ts)
      [] io = "open_error" -> file
      [] OTHER -> Truncated

---------------------------------------------------------------------------
(* ConversationManager, on a view s of one user's session:                 *)
(*   s.m the manager, s.f its file, s.now the clock, s.app the entries     *)
(*   appended so far, s.err whether the last save logged an error,         *)
(*   s.nerr the number of environment failures met                         *)

\* a mutant of Truncate: the slice taken from the wrong end
TruncateKeepsOldest(conversation) ==
    IF Len(conversation) > MAX_HISTORY_LENGTH
    THEN SubSeq(conversation, 1, MAX_HISTORY_LENGTH)
    ELSE conversation

\* lines 148-149: keep the history within the limit
Truncate(conversation) ==
    IF Len(conversation) > MAX_HISTORY_LENGTH
    THEN LastN(conversation, MAX_HISTORY_LENGTH)
    ELSE conversation

Saved(s, m, io) ==
    [s EXCEPT !.m = m,
              !.f = save_history(m, s.f, s.now, io),
              !.err = (io # "ok"),
              !.nerr = s.nerr + (IF io = "ok" THEN 0 ELSE 1)]

\* a mutant of add_message: the entry is appended and the save forgotten
add_message_unsaved(s, role, content, io) ==
    LET entry == Message(role, content, s.now)
        m == [s.m EXCEPT !.conversation = Truncate(Append(s.m.conversation, entry))]
    IN  [s EXCEPT !.m = m, !.now = s.now + 1, !.app = Append(s.app, entry)]

\* lines 139-151: append, truncate, save
add_message(s, role, content, io) ==
    LET entry == Message(role, content, s.now)
        m == [s.m EXCEPT !.conversation = Truncate(Append(s.m.conversation, entry))]
    IN  [Saved(s, m, io) EXCEPT !.now = s.now + 1, !.app = Append(s.app, entry)]

clear_history(s, io) ==
    [Saved(s, [s.m EXCEPT !.conversation = <<>>], io) EXCEPT !.app = <<>>]

\* set_language: an unknown language changes nothing and saves nothing
set_language(s, language, io) ==
    IF language \in Languages
    THEN Saved(s, [s.m EXCEPT !.language = language], io)
    ELSE s

\* get_history()[-10:] projected on role and content (lines 352-355)
ContextOf(conversation) ==
    LET recent == LastN(conversation, CONTEXT_MESSAGES)
    IN  [i \in 1..Len(recent) |-> [role |-> recent[i].role, content |-> recent[i].content]]

---------------------------------------------------------------------------
(* G4FBot *)

Resident(u) == u \in DOMAIN managers

\* get_manager: the resident manager, or a new one loaded from the file
get_manager(u) ==
    IF Resident(u) THEN managers[u] ELSE ConversationManager(u, disk[u])

get_translation(m, key) == TRANSLATIONS(m.language, key)

Session(u) ==
    [m |-> get_manager(u),
     f |-> disk[u],
     now |-> now[u],
     app |-> IF Resident(u) THEN appended[u] ELSE get_manager(u).conversation,
     err |-> IF Resident(u) THEN saveErr[u] ELSE FALSE,
     nerr |-> 0]

Commit(u, s) ==
    /\ managers' = [v \in DOMAIN managers \cup {u} |-> IF v = u THEN s.m ELSE managers[v]]
    /\ disk' = [disk EXCEPT ![u] = s.f]
    /\ now' = [now EXCEPT ![u] = s.now]
    /\ appended' = [appended EXCEPT ![u] = s.app]
    /\ saveErr' = [saveErr EXCEPT ![u] = s.err]

\* lines 352-359: the context, plus the input when it is not the last message
ContextMessages(m, user_input) ==
    LET messages == ContextOf(m.conversation)
    IN  IF Len(messages) = 0 \/ messages[Len(messages)].content # user_input
        THEN Append(messages, [role |-> "user", content |-> user_input])
        ELSE messages

\* lines 381-389 of _call_g4f
SystemPrompt(language) ==
    "You are a helpful assistant. Respond in " \o language \o " language. Be concise and helpful."

FullMessages(messages, language) ==
    <<[role |-> "system", content |-> SystemPrompt(language)]>> \o messages

RECURSIVE Join(_)
Join(parts) == IF parts = <<>> THEN "" ELSE Head(parts) \o Join(Tail(parts))

\* lines 391-405 of _call_g4f on what g4f.ChatCompletion.create gave:
\* a str, a stream of parts, a falsy non-str value, or an exception
call_g4f(raw) ==
    CASE raw.kind = "raise" -> [raised |-> TRUE, value |-> ""]
      [] raw.kind = "str" -> [raised |-> FALSE, value |-> raw.val]
      [] raw.kind = "stream" -> [raised |-> FALSE, value |-> Join(raw.parts)]
      [] OTHER -> [raised |-> FALSE, value |-> "No response"]

\* line 368: an empty response is replaced by the localized error text
ResponseOrError(m, response) ==
    IF response # "" THEN response ELSE get_translation(m, "error")

\* a mutant of ProviderCallSite: _call_g4f called directly from the coroutine
ProviderCallInline == "event_loop"

\* line 362: the provider call runs on a worker thread (asyncio.to_thread)
ProviderCallSite == "worker_thread"

---------------------------------------------------------------------------
(* Inputs *)

\* the user_ids of the updates
Users == {1, 2}

\* the text of the t-th update, and what the backend answers to it
Text(t) == "question " \o ToString(t)
Answer(t) == "answer " \o ToString(t)

\* documents: file_name, Path(file_name).suffix.lower(), and the text read from it
Documents ==
    {[file_name |-> "notes.txt", suffix |-> ".txt", content |-> "some notes"],
     [file_name |-> "tool.exe", suffix |-> ".exe", content |-> ""]}

\* an answer of 4097 characters, one more than Telegram takes in one message
Twice(s) == s \o s
LongAnswer == Twice(Twice(Twice(Twice(Twice(Twice(Twice(Twice(Twice(Twice(Twice(Twice("a")))))))))))) \o "."

\* what g4f.ChatCompletion.create can give for the t-th update
RawResponses(t) ==
    {[kind |-> "str", val |-> Answer(t)],
     [kind |-> "str", val |-> LongAnswer],
     [kind |-> "str", val |-> ""],
     [kind |-> "stream", parts |-> <<"answer ", ToString(t)>>],
     [kind |-> "none"],
     [kind |-> "raise"]}

\* a backend that repeats the last message of the request
Echo(messages) == IF messages = <<>> THEN "" ELSE messages[Len(messages)].content

\* what it can give for a document: the same, or the text it was asked to
\* analyse given back as the answer
FileResponses(t, messages) ==
    RawResponses(t) \cup {[kind |-> "str", val |-> Echo(messages)]}

\* a file left by an earlier run of the program
PriorLen == MAX_HISTORY_LENGTH - 1
PriorHistory ==
    [i \in 1..PriorLen |->
        Message(IF i % 2 = 1 THEN "user" ELSE "assistant", "earlier " \o ToString(i), i - PriorLen)]
PriorFile(u) ==
    Serialize([user_id |-> u, language |-> "ru", conversation |-> PriorHistory], 0)

\* user 1 comes back to the file of an earlier run, every other user is new
InitialFiles(u) == IF u = 1 THEN {PriorFile(u)} ELSE {Absent}

\* outcomes of a step of the environment: of a transport call, of the file I/O of a save
CallOutcomes == {"ok", "raise"}
IOOutcomes == {"ok", "open_error", "write_error"}
Cost(outcome) == IF outcome = "ok" THEN 0 ELSE 1

\* how long g4f.ChatCompletion.create takes: the source sets no timeout, the
\* call returns when it returns
Durations == {"in_time", "overdue"}
Delay(duration) == IF duration = "in_time" THEN 0 ELSE 1

---------------------------------------------------------------------------
(* Handler invocations *)

NoDocument == [file_name |-> "", suffix |-> "", content |-> ""]

NewTurn ==
    [pc |-> "new", kind |-> "none", user_id |-> 0, input |-> "", document |-> NoDocument,
     messages |-> <<>>, value |-> "", response |-> "", sending |-> "", replies |-> <<>>,
     logged |-> {}, base |-> 0, exclusive |-> FALSE, during |-> {}, loaded |-> "none",
     overdue |-> FALSE]

\* Fields of a turn: pc the await the handler is suspended at ("new" before the
\* update arrives; "done" after the handler returned, "raised" after an exception
\* left it, "killed" when the process stopped under it); value what _call_g4f
\* returned and response what get_ai_response returned; sending the text of the
\* reply_text awaited; replies the texts delivered; logged the logger.error lines.
\* Five fields record the run and are read by no handler: base the number of
\* entries of the session when the handler began, exclusive whether no other
\* handler has touched the user's session since, during the turns that were
\* suspended in the provider call when it began, loaded the state of the file
\* its get_manager built the manager from ("resident" when there was one),
\* overdue whether its provider call took longer than a caller would wait.
Finished == {"new", "done", "raised", "killed"}
InFlight(t) == turn[t].pc \notin Finished

\* the event loop runs one coroutine at a time; a call made on the loop itself
\* would hold it until the call returns
LoopFree == \A t \in Turns : turn[t].pc = "provider" => ProviderCallSite = "worker_thread"

\* what get_manager(u) reads when called now
LoadedFrom(u) == IF Resident(u) THEN "resident" ELSE disk[u].state

\* the turns of user u other than t have company from now on
Disturb(tn, u, t) ==
    [x \in Turns |-> IF x # t /\ tn[x].user_id = u THEN [tn[x] EXCEPT !.exclusive = FALSE] ELSE tn[x]]

\* lines 323-325 and 275-277: the handler's first stretch, with get_manager;
\* updates are taken up in the order of their arrival
Begin(t, u, locals) ==
    /\ turn[t].pc = "new"
    /\ IF t = 1 THEN TRUE ELSE turn[t - 1].pc # "new"
    /\ LoopFree
    /\ Commit(u, Session(u))
    /\ turn' = [Disturb(turn, u, t) EXCEPT ![t] =
                   [locals EXCEPT !.user_id = u,
                                  !.base = Len(Session(u).app),
                                  !.exclusive = \A x \in Turns : turn[x].user_id = u => ~InFlight(x),
                                  !.during = {x \in Turns : turn[x].pc = "provider"},
                                  !.loaded = LoadedFrom(u)]]
    /\ UNCHANGED <<faults, restarts>>

Init ==
    /\ disk \in [Users -> UNION {InitialFiles(u) : u \in Users}]
    /\ \A u \in Users : disk[u] \in InitialFiles(u)
    /\ managers = [u \in {} |-> 0]
    /\ turn = [t \in Turns |-> NewTurn]
    /\ now = [u \in Users |-> 1]
    /\ faults = 0
    /\ restarts = 0
    /\ appended = [u \in Users |-> <<>>]
    /\ saveErr = [u \in Users |-> FALSE]

SaveLog(io) == IF io = "ok" THEN {} ELSE {"Error saving history"}

\* lines 404 and 373: what a raising provider call leaves in the log
ProviderLog == {"g4f error", "Error getting AI response"}

\* an awaited reply_text(turn[t].sending) returns: sent, or an exception
ReplySent(t, next) ==
    turn' = [turn EXCEPT ![t].pc = next, ![t].replies = Append(@, turn[t].sending)]

AwaitStep(t, pcs, out) ==
    /\ turn[t].pc \in pcs
    /\ LoopFree
    /\ Cost(out) <= MaxFaults - faults
    /\ faults' = faults + Cost(out)
    /\ UNCHANGED restarts

---------------------------------------------------------------------------
(* handle_message, lines 321-346 *)

\* lines 323-328: up to the await of send_action
handle_message_start(t, u) ==
    Begin(t, u, [NewTurn EXCEPT !.pc = "send_action", !.kind = "text", !.input = Text(t)])

\* lines 328-366: send_action returns; the user message is added and saved, the
\* context is built and the provider call is started. An exception of send_action
\* leaves the handler.
handle_message_send_action(t, out, io) ==
    LET u == turn[t].user_id
        s == add_message(Session(u), "user", turn[t].input, io)
        messages == ContextMessages(s.m, turn[t].input)
    IN  /\ turn[t].kind = "text"
        /\ turn[t].pc = "send_action"
        /\ LoopFree
        /\ Cost(out) + Cost(io) <= MaxFaults - faults
        /\ faults' = faults + Cost(out) + Cost(io)
        /\ IF out = "raise"
           THEN /\ io = "ok"
                /\ turn' = [turn EXCEPT ![t].pc = "raised"]
                /\ UNCHANGED <<disk, managers, now, appended, saveErr>>
           ELSE /\ Commit(u, s)
                /\ turn' = [turn EXCEPT
                               ![t].pc = "provider",
                               ![t].messages = FullMessages(messages, s.m.language),
                               ![t].logged = @ \cup SaveLog(io)]
        /\ UNCHANGED restarts

\* lines 362-341 and 343-346: the provider call returns; the response (or the
\* error text in place of an empty one) is added and saved and reply_text is
\* awaited; an exception of the call goes to the except clause
handle_message_provider(t, raw, duration, io) ==
    LET u == turn[t].user_id
        r == call_g4f(raw)
        response == ResponseOrError(get_manager(u), r.value)
        s == add_message(Session(u), "assistant", response, io)
    IN  /\ turn[t].kind = "text"
        /\ turn[t].pc = "provider"
        /\ Delay(duration) + Cost(io) <= MaxFaults - faults
        /\ faults' = faults + Delay(duration) + Cost(io)
        /\ IF r.raised
           THEN /\ io = "ok"
                /\ turn' = [turn EXCEPT
                               ![t].pc = "reply_error",
                               ![t].overdue = (duration = "overdue"),
                               ![t].sending = get_translation(get_manager(u), "error"),
                               ![t].logged = @ \cup ProviderLog \cup {"Error processing message"}]
                /\ UNCHANGED <<disk, managers, now, appended, saveErr>>
           ELSE /\ Commit(u, s)
                /\ turn' = [turn EXCEPT
                               ![t].pc = "reply",
                               ![t].overdue = (duration = "overdue"),
                               ![t].value = r.value,
                               ![t].response = response,
                               ![t].sending = response,
                               ![t].logged = @ \cup SaveLog(io)]
        /\ UNCHANGED restarts

\* line 341: reply_text(response) returns, or raises into the except clause
handle_message_reply(t, out) ==
    /\ turn[t].kind = "text"
    /\ AwaitStep(t, {"reply"}, out)
    /\ IF out = "ok"
       THEN ReplySent(t, "done")
       ELSE turn' = [turn EXCEPT
                        ![t].pc = "reply_error",
                        ![t].sending = get_translation(get_manager(turn[t].user_id), "error"),
                        ![t].logged = @ \cup {"Error processing message"}]
    /\ UNCHANGED <<disk, managers, now, appended, saveErr>>

\* line 346: reply_text(error_msg) returns, or its exception leaves the handler
handle_message_reply_error(t, out) ==
    /\ turn[t].kind = "text"
    /\ AwaitStep(t, {"reply_error"}, out)
    /\ IF out = "ok" THEN ReplySent(t, "done") ELSE turn' = [turn EXCEPT ![t].pc = "raised"]
    /\ UNCHANGED <<disk, managers, now, appended, saveErr>>

---------------------------------------------------------------------------
(* handle_file, lines 273-319 *)

AnalysisPrompt(document) ==
    "Please analyze the following file content (" \o document.file_name \o "):\n\n"
        \o document.content

\* lines 275-289: the type check; the download is awaited, or the refusal is sent
handle_file_start(t, u, document) ==
    Begin(t, u,
          IF document.suffix \in SUPPORTED_FILE_TYPES
          THEN [NewTurn EXCEPT !.pc = "download", !.kind = "file",
                               !.input = document.file_name, !.document = document]
          ELSE [NewTurn EXCEPT !.pc = "reply_unsupported", !.kind = "file",
                               !.input = document.file_name, !.document = document,
                               !.sending = get_translation(get_manager(u), "unsupported_file")])

\* line 284: the refusal is sent, outside the try
handle_file_reply_unsupported(t, out) ==
    /\ AwaitStep(t, {"reply_unsupported"}, out)
    /\ IF out = "ok" THEN ReplySent(t, "done") ELSE turn' = [turn EXCEPT ![t].pc = "raised"]
    /\ UNCHANGED <<disk, managers, now, appended, saveErr>>

\* lines 316-319: the except clause of handle_file, entered with what was logged
\* on the way
FileError(t, log, duration) ==
    turn' = [turn EXCEPT
                ![t].pc = "reply_file_error",
                ![t].overdue = (duration = "overdue"),
                ![t].sending = get_translation(get_manager(turn[t].user_id), "file_error"),
                ![t].logged = @ \cup log \cup {"Error handling file"}]

\* lines 289-302: get_file, download_to_drive, the read and the removal, then
\* the notice that the file was received
handle_file_download(t, out) ==
    /\ AwaitStep(t, {"download"}, out)
    /\ IF out = "ok"
       THEN turn' = [turn EXCEPT
                        ![t].pc = "reply_received",
                        ![t].sending = get_translation(get_manager(turn[t].user_id), "file_received")
                                           \o turn[t].input]
       ELSE FileError(t, {}, "in_time")
    /\ UNCHANGED <<disk, managers, now, appended, saveErr>>

\* a mutant of handle_file_received: the user entry is added before the provider
\* call, as handle_message adds its own
handle_file_received_adds_user(t, out) ==
    LET u == turn[t].user_id
        s == add_message(Session(u), "user", "[File Analysis] " \o turn[t].input, "ok")
        messages == ContextMessages(s.m, AnalysisPrompt(turn[t].document))
    IN  /\ AwaitStep(t, {"reply_received"}, out)
        /\ IF out = "ok"
           THEN /\ Commit(u, s)
                /\ turn' = [turn EXCEPT
                               ![t].pc = "provider",
                               ![t].replies = Append(@, turn[t].sending),
                               ![t].messages = FullMessages(messages, s.m.language)]
           ELSE /\ FileError(t, {}, "in_time")
                /\ UNCHANGED <<disk, managers, now, appended, saveErr>>

\* lines 302-310 with 352-366: the notice is sent, the context is built from the
\* history and the analysis prompt, and the provider call is started
handle_file_received(t, out) ==
    LET m == get_manager(turn[t].user_id)
        messages == ContextMessages(m, AnalysisPrompt(turn[t].document))
    IN  /\ AwaitStep(t, {"reply_received"}, out)
        /\ IF out = "ok"
           THEN turn' = [turn EXCEPT
                            ![t].pc = "provider",
                            ![t].replies = Append(@, turn[t].sending),
                            ![t].messages = FullMessages(messages, m.language)]
           ELSE FileError(t, {}, "in_time")
        /\ UNCHANGED <<disk, managers, now, appended, saveErr>>

\* lines 310-314: the provider call returns; both messages are added, each with
\* its save, and reply_text is awaited
handle_file_provider(t, raw, duration, io1, io2) ==
    LET u == turn[t].user_id
        r == call_g4f(raw)
        response == ResponseOrError(get_manager(u), r.value)
        s1 == add_message(Session(u), "user", "[File Analysis] " \o turn[t].input, io1)
        s2 == add_message(s1, "assistant", response, io2)
    IN  /\ turn[t].kind = "file"
        /\ turn[t].pc = "provider"
        /\ Delay(duration) + Cost(io1) + Cost(io2) <= MaxFaults - faults
        /\ faults' = faults + Delay(duration) + Cost(io1) + Cost(io2)
        /\ IF r.raised
           THEN /\ io1 = "ok" /\ io2 = "ok"
                /\ FileError(t, ProviderLog, duration)
                /\ UNCHANGED <<disk, managers, now, appended, saveErr>>
           ELSE /\ Commit(u, s2)
                /\ turn' = [turn EXCEPT
                               ![t].pc = "reply",
                               ![t].overdue = (duration = "overdue"),
                               ![t].value = r.value,
                               ![t].response = response,
                               ![t].sending = response,
                               ![t].logged = @ \cup SaveLog(io1) \cup SaveLog(io2)]
        /\ UNCHANGED restarts

\* line 314: reply_text(response) returns, or raises into the except clause
handle_file_reply(t, out) ==
    /\ turn[t].kind = "file"
    /\ AwaitStep(t, {"reply"}, out)
    /\ IF out = "ok" THEN ReplySent(t, "done") ELSE FileError(t, {}, "in_time")
    /\ UNCHANGED <<disk, managers, now, appended, saveErr>>

\* line 318: reply_text of the file error returns, or its exception leaves the handler
handle_file_reply_error(t, out) ==
    /\ AwaitStep(t, {"reply_file_error"}, out)
    /\ IF out = "ok" THEN ReplySent(t, "done") ELSE turn' = [turn EXCEPT ![t].pc = "raised"]
    /\ UNCHANGED <<disk, managers, now, appended, saveErr>>

---------------------------------------------------------------------------
(* Commands. A command changes the session before its only await, the      *)
(* reply, which touches nothing else: call and reply are one step.         *)

CommandStep(t, u, s, kind, input, text, out) ==
    /\ turn[t].pc = "new"
    /\ IF t = 1 THEN TRUE ELSE turn[t - 1].pc # "new"
    /\ LoopFree
    /\ Cost(out) + s.nerr <= MaxFaults - faults
    /\ faults' = faults + Cost(out) + s.nerr
    /\ Commit(u, s)
    /\ turn' = [Disturb(turn, u, t) EXCEPT ![t] =
                   [NewTurn EXCEPT !.pc = IF out = "ok" THEN "done" ELSE "raised",
                                   !.kind = kind, !.user_id = u, !.input = input,
                                   !.base = Len(Session(u).app),
                                   !.exclusive = \A x \in Turns : turn[x].user_id = u => ~InFlight(x),
                                   !.during = {x \in Turns : turn[x].pc = "provider"},
                                   !.loaded = LoadedFrom(u),
                                   !.replies = IF out = "ok" THEN <<text>> ELSE <<>>,
                                   !.logged = IF s.nerr > 0 THEN {"Error saving history"} ELSE {}]]
    /\ UNCHANGED restarts

\* G4FBot.clear_history, lines 224-232
clear_history_command(t, u, io, out) ==
    LET s == clear_history(Session(u), io)
    IN  CommandStep(t, u, s, "clear", "", get_translation(s.m, "cleared"), out)

\* language_command, lines 253-265: only "en" and "ru" reach set_language
language_command(t, u, args, io, out) ==
    IF Len(args) > 0 /\ args[1] \in SupportedLanguageArgs
    THEN LET s == set_language(Session(u), args[1], io)
         IN  CommandStep(t, u, s, "language", args[1],
                         get_translation(s.m, "language_switched"), out)
    ELSE /\ io = "ok"
         /\ CommandStep(t, u, Session(u), "language", IF Len(args) > 0 THEN args[1] ELSE "",
                        "Use /language en or /language ru", out)

LanguageArgs == {<<>>, <<"en">>, <<"ru">>, <<"de">>}

---------------------------------------------------------------------------
(* The process *)

\* the process stops and is started again (main, lines 413-420): the registry
\* is empty again, the handlers in flight are gone, the files stay
Restart ==
    /\ restarts < MaxRestarts
    /\ DOMAIN managers # {}
    /\ restarts' = restarts + 1
    /\ managers' = [u \in {} |-> 0]
    /\ turn' = [t \in Turns |->
                   [turn[t] EXCEPT !.pc = IF InFlight(t) THEN "killed" ELSE @,
                                   !.exclusive = FALSE]]
    /\ appended' = [u \in Users |-> <<>>]
    /\ saveErr' = [u \in Users |-> FALSE]
    /\ UNCHANGED <<disk, now, faults>>

Next ==
    \/ \E t \in Turns, u \in Users : handle_message_start(t, u)
    \/ \E t \in Turns, out \in CallOutcomes, io \in IOOutcomes : handle_message_send_action(t, out, io)
    \/ \E t \in Turns, duration \in Durations, io \in IOOutcomes :
          \E raw \in RawResponses(t) : handle_message_provider(t, raw, duration, io)
    \/ \E t \in Turns, out \in CallOutcomes : handle_message_reply(t, out)
    \/ \E t \in Turns, out \in CallOutcomes : handle_message_reply_error(t, out)
    \/ \E t \in Turns, u \in Users, document \in Documents : handle_file_start(t, u, document)
    \/ \E t \in Turns, out \in CallOutcomes : handle_file_reply_unsupported(t, out)
    \/ \E t \in Turns, out \in CallOutcomes : handle_file_download(t, out)
    \/ \E t \in Turns, out \in CallOutcomes : handle_file_received(t, out)
    \/ \E t \in Turns, duration \in Durations, io1 \in IOOutcomes, io2 \in IOOutcomes :
          \E raw \in FileResponses(t, turn[t].messages) : handle_file_provider(t, raw, duration, io1, io2)
    \/ \E t \in Turns, out \in CallOutcomes : handle_file_reply(t, out)
    \/ \E t \in Turns, out \in CallOutcomes : handle_file_reply_error(t, out)
    \/ \E t \in Turns, u \in Users, io \in IOOutcomes, out \in CallOutcomes :
          clear_history_command(t, u, io, out)
    \/ \E t \in Turns, u \in Users, args \in LanguageArgs, io \in IOOutcomes, out \in CallOutcomes :
          language_command(t, u, args, io, out)
    \/ Restart

Spec == Init /\ [][Next]_vars

---------------------------------------------------------------------------
(* Properties *)

Plain(entry) == [role |-> entry.role, content |-> entry.content]

\* the file of u holds what the manager of u holds
Persisted(u) ==
    /\ Resident(u)
    /\ disk[u].state = "complete"
    /\ disk[u].user_id = u
    /\ disk[u].language = managers[u].language
    /\ disk[u].conversation = managers[u].conversation

\* a text turn that ran alone on its session, got a text from the backend,
\* logged no error and delivered its reply
SuccessfulTextTurn(t) ==
    /\ turn[t].kind = "text"
    /\ turn[t].pc = "done"
    /\ turn[t].exclusive
    /\ turn[t].logged = {}
    /\ turn[t].value # ""

\* C1: a successful text turn with no other turn in flight on its session
\* appends exactly two entries, the inbound text as user and then the backend's
\* response as assistant (under the cap), the result is in the file, and the
\* one reply is the backend's response.
C1_SuccessfulTurnAppendsPair ==
    \A t \in Turns :
        SuccessfulTextTurn(t) =>
            LET u == turn[t].user_id
                n == turn[t].base
            IN  /\ Resident(u)
                /\ Len(appended[u]) = n + 2
                /\ Plain(appended[u][n + 1]) = [role |-> "user", content |-> turn[t].input]
                /\ Plain(appended[u][n + 2]) = [role |-> "assistant", content |-> turn[t].value]
                /\ managers[u].conversation = LastN(appended[u], MAX_HISTORY_LENGTH)
                /\ Persisted(u)
                /\ turn[t].replies = <<turn[t].value>>

\* the scenario of the specification: an empty session, "question 1" answered
\* "answer 1"
C1_Witness ==
    \E t \in Turns :
        /\ SuccessfulTextTurn(t)
        /\ turn[t].base = 0
        /\ turn[t].value = Answer(t)
        /\ Len(managers[turn[t].user_id].conversation) = 2

\* C2: after every mutation the history holds at most MAX_HISTORY_LENGTH
\* entries, and they are the most recently appended ones in insertion order.
C2_HistoryIsMostRecent ==
    \A u \in Users :
        Resident(u) =>
            /\ Len(managers[u].conversation) <= MAX_HISTORY_LENGTH
            /\ managers[u].conversation = LastN(appended[u], MAX_HISTORY_LENGTH)

\* entries of a text turn and of a file turn were appended past the cap
C2_Witness ==
    \E u \in Users :
        /\ Resident(u)
        /\ Len(appended[u]) > MAX_HISTORY_LENGTH + 2
        /\ Len(managers[u].conversation) = MAX_HISTORY_LENGTH
        /\ \E i, j \in 1..MAX_HISTORY_LENGTH :
              /\ managers[u].conversation[i].content = "[File Analysis] notes.txt"
              /\ managers[u].conversation[j].content \in {Text(t) : t \in Turns}

PlainSeq(entries) == [i \in 1..Len(entries) |-> Plain(entries[i])]

\* what the turns t, t+1, ... of user u leave in the history when each runs to
\* its end before the next begins: the input, then the response if there was one
RECURSIVE SequentialEntries(_, _)
SequentialEntries(u, t) ==
    IF t > MaxTurns
    THEN <<>>
    ELSE (IF turn[t].user_id = u
          THEN <<[role |-> "user", content |-> turn[t].input]>>
                   \o (IF turn[t].response # ""
                       THEN <<[role |-> "assistant", content |-> turn[t].response]>>
                       ELSE <<>>)
          ELSE <<>>) \o SequentialEntries(u, t + 1)

TurnsOf(u) == {t \in Turns : turn[t].user_id = u}

\* C3: text turns of one user in flight together leave the history that the
\* same turns leave when run one after the other in arrival order: once all
\* of them have been answered and have replied, each user entry is followed by
\* the assistant entry of its own turn.
C3_ConcurrentTurnsAreSerial ==
    \A u \in Users :
        (/\ restarts = 0
         /\ TurnsOf(u) # {}
         /\ \A t \in TurnsOf(u) :
               /\ turn[t].kind = "text"
               /\ turn[t].pc = "done"
               /\ turn[t].logged = {}
               /\ turn[t].value = Answer(t))
        => LET first == CHOOSE t \in TurnsOf(u) : \A x \in TurnsOf(u) : t <= x
               n == turn[first].base
           IN  PlainSeq(SubSeq(appended[u], n + 1, Len(appended[u]))) = SequentialEntries(u, 1)

\* a turn whose provider call raised, that ran alone on its session, whose saves
\* met no I/O error, and that delivered its notice
ProviderFailedTurn(t) ==
    /\ turn[t].kind \in {"text", "file"}
    /\ turn[t].pc = "done"
    /\ turn[t].exclusive
    /\ "g4f error" \in turn[t].logged
    /\ "Error saving history" \notin turn[t].logged

UserEntry(t) ==
    [role |-> "user",
     content |-> IF turn[t].kind = "file" THEN "[File Analysis] " \o turn[t].input ELSE turn[t].input]

ErrorNotices == {TRANSLATIONS(l, key) : l \in Languages, key \in {"error", "file_error"}}

\* C4: after a turn whose provider call raised, text or file, the history holds
\* the turn's user message and no assistant message of the turn, the file holds
\* the same, and the caller got a localized error notice.
C4_FailedTurnKeepsUserMessage ==
    \A t \in Turns :
        ProviderFailedTurn(t) =>
            LET u == turn[t].user_id
                n == turn[t].base
            IN  /\ Len(appended[u]) = n + 1
                /\ Plain(appended[u][n + 1]) = UserEntry(t)
                /\ managers[u].conversation = LastN(appended[u], MAX_HISTORY_LENGTH)
                /\ Persisted(u)
                /\ turn[t].replies # <<>>
                /\ turn[t].replies[Len(turn[t].replies)] \in ErrorNotices

\* texts the program makes up in place of a backend response
SyntheticTexts == {TRANSLATIONS(l, "error") : l \in Languages} \cup {"No response"}

\* C5: an empty or missing backend response is a failure: no text that did not
\* come from the backend is ever in the history with role assistant.
C5_NoSyntheticAssistantEntry ==
    \A u \in Users :
        Resident(u) =>
            \A i \in 1..Len(managers[u].conversation) :
                managers[u].conversation[i].role = "assistant"
                    => managers[u].conversation[i].content \notin SyntheticTexts

\* C6: a text turn that has ended, by return or by exception, has sent exactly
\* one reply.
C6_ExactlyOneReply ==
    \A t \in Turns :
        (turn[t].kind = "text" /\ turn[t].pc \in {"done", "raised"}) => Len(turn[t].replies) = 1

\* the next step of turn x, with nothing failing
StepOf(x) ==
    \/ handle_message_send_action(x, "ok", "ok")
    \/ handle_message_provider(x, [kind |-> "str", val |-> Answer(x)], "in_time", "ok")
    \/ handle_message_reply(x, "ok")
    \/ handle_message_reply_error(x, "ok")

CompletedTurn(t) ==
    /\ turn[t].kind \in {"text", "file"}
    /\ turn[t].pc = "done"
    /\ turn[t].exclusive
    /\ turn[t].value # ""
    /\ turn[t].replies # <<>>
    /\ turn[t].replies[Len(turn[t].replies)] = turn[t].response

\* C8: after a turn that completed without an error reaching its caller, the
\* file of the session equals the session in memory.
C8_DurableEqualsMemory ==
    \A t \in Turns : CompletedTurn(t) => Persisted(turn[t].user_id)

\* C9: the file of a user is at every moment a complete record, the previous
\* one or the new one.
C9_FileAlwaysComplete ==
    \A u \in Users : disk[u].state # "truncated"

\* C10: whenever the last save_history of a session met no error, a new
\* ConversationManager built for its user_id from the file has the same user_id,
\* language and history, entry by entry with role, content and timestamp.
C10_SaveLoadRoundTrip ==
    \A u \in Users :
        (Resident(u) /\ ~saveErr[u]) => ConversationManager(u, disk[u]) = managers[u]

\* after a restart a manager was built from a file this run had saved: the
\* language is not the default and the history holds an entry of this run
C10_Witness ==
    \E t \in Turns :
        LET u == turn[t].user_id
        IN  /\ restarts = 1
            /\ turn[t].pc \in {"send_action", "download"}
            /\ turn[t].exclusive
            /\ Resident(u)
            /\ managers[u].language = "ru"
            /\ \E i \in 1..Len(managers[u].conversation) :
                  managers[u].conversation[i].timestamp >= 1

\* the handler of turn t built the manager from a missing or an unparsable
\* file, and no other handler has touched the session since
FreshLoad(t) ==
    /\ turn[t].loaded \in {"absent", "truncated"}
    /\ turn[t].exclusive

ClearStep(t) == turn[t].pc = "new" /\ turn'[t].kind = "clear"

\* C12: right after a clear command the history of its user is empty in the
\* manager and in what the file loads to, the language in both is the one the
\* session had, and the manager and the file of every other user are as they
\* were.
C12_ClearEmptiesAndPersists ==
    [][\A t \in Turns :
          ClearStep(t) =>
              LET u == turn'[t].user_id
              IN  /\ u \in DOMAIN managers'
                  /\ managers'[u].conversation = <<>>
                  /\ managers'[u].language = get_manager(u).language
                  /\ ConversationManager(u, disk'[u]).conversation = <<>>
                  /\ ConversationManager(u, disk'[u]).language = get_manager(u).language
                  /\ \A v \in Users \ {u} :
                        /\ disk'[v] = disk[v]
                        /\ (v \in DOMAIN managers') = (v \in DOMAIN managers)
                        /\ v \in DOMAIN managers => managers'[v] = managers[v]]_vars

\* the step starts the provider call of turn t
CallStarts(t) == turn[t].pc # "provider" /\ turn'[t].pc = "provider"

\* C13: the message list of every provider call, of a text or of a file turn,
\* is the system instruction with the language of the session followed by the
\* last min(10, len(history)) entries of the history as it is when the call
\* starts, in order, and nothing else.
C13_ContextIsHistoryTail ==
    [][\A t \in Turns :
          CallStarts(t) =>
              LET m == managers'[turn'[t].user_id]
              IN  turn'[t].messages =
                      <<[role |-> "system", content |-> SystemPrompt(m.language)]>>
                          \o PlainSeq(LastN(m.conversation, 10))]_vars

\* the first backend is the one call of _call_g4f; a second backend, in good
\* health, would answer the request of turn t
SecondBackend(t) == [kind |-> "str", val |-> Answer(t)]

\* the call to the first backend raised
FirstBackendFailed(t) ==
    /\ turn[t].kind \in {"text", "file"}
    /\ "g4f error" \in turn[t].logged

\* C14: backends are tried in priority order: a turn whose first backend
\* failed, with a second one that answers, does not fail; once it has ended its
\* response and its reply are the second backend's result, and while it is alone
\* on its session that result is the last entry of the history, as assistant.
C14_FallbackToSecondBackend ==
    \A t \in Turns :
        (FirstBackendFailed(t) /\ turn[t].pc \in {"done", "raised"}) =>
            /\ turn[t].response = call_g4f(SecondBackend(t)).value
            /\ turn[t].replies # <<>>
            /\ turn[t].replies[Len(turn[t].replies)] = turn[t].response
            /\ turn[t].exclusive =>
                  LET h == managers[turn[t].user_id].conversation
                  IN  /\ h # <<>>
                      /\ Plain(h[Len(h)]) = [role |-> "assistant", content |-> turn[t].response]

\* the texts turn t has handed to reply_text: those delivered and the one awaited
HandedToTransport(t) ==
    {turn[t].replies[i] : i \in 1..Len(turn[t].replies)}
        \cup (IF turn[t].pc \in {"reply", "reply_error", "reply_received",
                                 "reply_unsupported", "reply_file_error"}
              THEN {turn[t].sending} ELSE {})

\* C15: every text handed to the transport in one message has at most 4096
\* characters: a longer response goes out in several messages, never in one.
C15_RepliesWithinTransportLimit ==
    \A t \in Turns : \A text \in HandedToTransport(t) : Len(text) <= 4096

\* the step is the language command of turn t
LanguageStep(t) == turn[t].pc = "new" /\ turn'[t].kind = "language"

\* C16: a language command with "en" or "ru" sets the language of the session
\* to it, leaves the history as it was, and the file loads to the session as it
\* now is; with no argument or any other one the manager and the file are as
\* they were.
C16_LanguageCommandChangesOnlyLanguage ==
    [][\A t \in Turns :
          LanguageStep(t) =>
              LET u == turn'[t].user_id
                  before == get_manager(u)
              IN  /\ u \in DOMAIN managers'
                  /\ IF turn'[t].input \in {"en", "ru"}
                     THEN /\ managers'[u] = [before EXCEPT !.language = turn'[t].input]
                          /\ ConversationManager(u, disk'[u]) = managers'[u]
                     ELSE /\ managers'[u] = before
                          /\ disk'[u] = disk[u]]_vars

\* C17: a provider call that takes longer than its deadline is abandoned and
\* counts as failed: whatever the call gives in the end, the turn has no
\* response, nothing of the call is in the history, and a turn that has ended
\* sent an error notice last.
C17_OverdueCallIsAbandoned ==
    \A t \in Turns :
        turn[t].overdue =>
            /\ turn[t].response = ""
            /\ turn[t].pc \in {"done", "raised"} =>
                  /\ turn[t].replies # <<>>
                  /\ turn[t].replies[Len(turn[t].replies)] \in ErrorNotices
            /\ turn[t].exclusive =>
                  LET h == managers[turn[t].user_id].conversation
                  IN  h # <<>> => h[Len(h)].role # "assistant"

\* the clear command c ran while the text turn t of the same user was
\* suspended in its provider call, and the turn has since been answered, with
\* no error on its way, and has replied
ClearDuringTurn(c, t) ==
    /\ turn[c].kind = "clear"
    /\ turn[t].kind = "text"
    /\ turn[c].user_id = turn[t].user_id
    /\ t \in turn[c].during
    /\ turn[t].pc = "done"
    /\ turn[t].logged = {}
    /\ turn[t].value = Answer(t)
    /\ restarts = 0

\* C18: a clear issued while a text turn of the same user is suspended in the
\* provider call leaves, once both have finished, the history of one of the
\* two serial orders: empty, or the user entry and the assistant entry of the
\* turn; never the assistant entry alone.
C18_ClearIsSerializedWithTurn ==
    \A c, t \in Turns :
        ClearDuringTurn(c, t) =>
            PlainSeq(managers[turn[t].user_id].conversation) \in
                {<<>>, <<UserEntry(t), [role |-> "assistant", content |-> turn[t].response]>>}

\* the places of an entry in what has been appended to the history of u
Places(u, entry) == {i \in 1..Len(appended[u]) : Plain(appended[u][i]) = entry}

\* the text turn t1 appended its user entry before the text turn t2 of the same
\* user appended its own
StartedBefore(t1, t2) ==
    /\ turn[t1].kind = "text"
    /\ turn[t2].kind = "text"
    /\ turn[t1].user_id = turn[t2].user_id
    /\ restarts = 0
    /\ \E i \in Places(turn[t1].user_id, UserEntry(t1)) :
          \E j \in Places(turn[t2].user_id, UserEntry(t2)) : i < j

\* C19: turns of one user complete in the order they started: when the later
\* turn has appended the backend's text the earlier one is no longer waiting
\* for its provider call, and when the later one has sent its reply the
\* earlier one has sent its own.
C19_TurnsCompleteInStartOrder ==
    \A t1, t2 \in Turns :
        StartedBefore(t1, t2) =>
            /\ turn[t2].value # "" => turn[t1].pc # "provider"
            /\ turn[t2].replies # <<>> => turn[t1].pc \notin {"provider", "reply", "reply_error"}

\* what the handler of turn t passes to get_ai_response as user_input
UserInput(tn) == IF tn.kind = "file" THEN AnalysisPrompt(tn.document) ELSE tn.input

\* C20: the message list of every provider call, of a text or of a file turn,
\* ends with the turn's input as a user message, and the input is appended to
\* the context at most once: not at all when the context already ends with it.
C20_ListEndsWithUserInput ==
    [][\A t \in Turns :
          CallStarts(t) =>
              LET messages == turn'[t].messages
                  context == PlainSeq(LastN(managers'[turn'[t].user_id].conversation, 10))
                  entry == [role |-> "user", content |-> UserInput(turn'[t])]
              IN  /\ messages[Len(messages)] = entry
                  /\ Tail(messages) \in {context, Append(context, entry)}
                  /\ (context # <<>> /\ context[Len(context)] = entry)
                        => Tail(messages) = context]_vars

\* the step is one of the handler of the file turn t
FileTurnStep(t) ==
    /\ turn'[t].kind = "file"
    /\ turn'[t].pc # turn[t].pc
    /\ turn'[t].pc # "killed"

\* C21: a file turn changes the history all or nothing. The step in which its
\* provider call returns without an exception appends the user entry
\* "[File Analysis] <name>" and right after it the assistant entry with the
\* response, in that one step, so that no entry of another turn comes between
\* the two; every other step of the turn (the type check, the refusal, the
\* download, the notices, a provider call that raised, the replies) leaves the
\* history as it was.
C21_FileTurnAllOrNothing ==
    [][\A t \in Turns :
          FileTurnStep(t) =>
              LET u == turn'[t].user_id
                  before == PlainSeq(get_manager(u).conversation)
                  after == PlainSeq(managers'[u].conversation)
                  pair == <<[role |-> "user", content |-> "[File Analysis] " \o turn'[t].input],
                            [role |-> "assistant", content |-> turn'[t].response]>>
              IN  IF turn[t].pc = "provider" /\ turn'[t].pc = "reply"
                  THEN after = LastN(before \o pair, MAX_HISTORY_LENGTH)
                  ELSE after = before]_vars

\* a file turn began while a text turn of the same user was suspended in its
\* provider call, was answered and has replied: its two entries are next to
\* each other in the history, after the user entry of the text turn
C21_Witness ==
    \E t, x \in Turns :
        /\ turn[t].kind = "file"
        /\ turn[x].kind = "text"
        /\ turn[t].user_id = turn[x].user_id
        /\ x \in turn[t].during
        /\ turn[t].pc = "done"
        /\ turn[t].value = Answer(t)
        /\ restarts = 0
        /\ \E i \in Places(turn[t].user_id, UserEntry(t)) :
              /\ i < Len(appended[turn[t].user_id])
              /\ Plain(appended[turn[t].user_id][i + 1]) =
                     [role |-> "assistant", content |-> Answer(t)]
              /\ \E j \in Places(turn[x].user_id, UserEntry(x)) : j < i

====
